---- MODULE Spec2Model ----
(***************************************************************************)
(* A model of fabric/decorators.py: the decorators hosts, roles,           *)
(* runs_once, ensure_order and with_settings.                              *)
(*                                                                         *)
(* Three groups of state:                                                  *)
(*   - decoration time: a heap of callables (funcs) and of list objects    *)
(*     (lists), the decorator a factory call returned (dec) and the last   *)
(*     call made (last);                                                   *)
(*   - call time of one runs_once wrapper: its attribute dictionary        *)
(*     (decorated), the threads inside it (pc, frame) and what the callers *)
(*     saw (counter, writes, log);                                         *)
(*   - call time of with_settings wrappers: the process-wide               *)
(*     configuration (env), the call stack (stack), a propagating          *)
(*     exception (exc) and the last completed call (done).                 *)
(***************************************************************************)
EXTENDS Integers, Sequences, FiniteSets, TLC

VARIABLES funcs, lists, dec, last,
          decorated, pc, frame, counter, writes, log,
          env, stack, exc, done

decorVars == <<funcs, lists, dec, last>>
onceVars == <<decorated, pc, frame, counter, writes, log>>
settingsVars == <<env, stack, exc, done>>
vars == <<funcs, lists, dec, last, decorated, pc, frame, counter, writes, log,
          env, stack, exc, done>>

(***************************************************************************)
(* Bounds of the model.                                                    *)
(***************************************************************************)
MaxFuncs == 4
MaxLists == 3
MaxLen == 2
MaxCalls == 3
MaxDepth == 2

(***************************************************************************)
(* Python values, as <<tag, payload>>; the tag fixes the payload's type.   *)
(* A string carries its characters, so that list(string) splits it.        *)
(***************************************************************************)
PyNone == <<"none", 0>>
PyFalse == <<"bool", 0>>
PyTrue == <<"bool", 1>>
PyInt(n) == <<"int", n>>
Str(chars) == <<"str", chars>>
Tuple(items) == <<"tuple", items>>
Ref(i) == <<"ref", i>>
ListRef(i) == <<"list", i>>

\* The host strings "h1" and "h2" (characters h = 1, 1 = 2, 2 = 3).
h1 == Str(<<1, 2>>)
h2 == Str(<<1, 3>>)
HostStrings == {h1, h2}

EmptyDict == <<>>
hasattr(d, name) == name \in DOMAIN d
setattr(d, name, value) == (name :> value) @@ d

\* isinstance(x, StringTypes)
isinstance_StringTypes(x) == x[1] = "str"

\* type(x): a reference has the type of the object it refers to.
TypeOf(x) == IF x[1] = "ref" THEN funcs[x[2]].type ELSE x[1]

\* list(x) for the iterables of the model: a tuple, a list object, a string.
list(x) ==
    CASE x[1] = "tuple" -> x[2]
      [] x[1] = "list" -> lists[x[2]]
      [] x[1] = "str" -> [i \in 1..Len(x[2]) |-> Str(<<x[2][i]>>)]

\* functools.wraps(func): wrapper.__dict__.update(func.__dict__).
wraps(wrapper_dict, func) == funcs[func].dict @@ wrapper_dict

\* A function object as `def` makes it, and an instance of a class with __call__.
PlainFunction == [type |-> "function", code |-> "def", closure |-> PyNone, dict |-> EmptyDict]
CallableObject == [type |-> "instance", code |-> "__call__", closure |-> PyNone, dict |-> EmptyDict]
Wrapper(code, func, d) == [type |-> "function", code |-> code, closure |-> Ref(func), dict |-> d]

NoDecorator == [code |-> "none", arg |-> PyNone, dict |-> EmptyDict]
Decorator(code, arg, d) == [code |-> code, arg |-> arg, dict |-> d]
ReturnedDecorator(code) == <<"decorator", code>>
Call(op, arg, target, res) == [op |-> op, arg |-> arg, target |-> target, res |-> res]

\* functools.wraps reads func.__name__, which an instance does not have.
Wrappable == {f \in DOMAIN funcs : funcs[f].type = "function"}
\* The task functions of the fabfile: what its decorators are applied to.
Tasks == {f \in DOMAIN funcs : funcs[f].type = "function"}
\* The one list object the fabfile itself holds and may pass as an iterable.
UserLists == {1}

(***************************************************************************)
(* hosts and roles.                                                        *)
(***************************************************************************)
\* normalise without the isinstance test: any single argument is the iterable.
normalise_any_single(host_list) ==
    IF Len(host_list[2]) = 1 THEN host_list[2][1] ELSE host_list

\* lines 42-45 (82-85): the single non-string argument is the iterable.
normalise(host_list) ==
    IF Len(host_list[2]) = 1 /\ ~isinstance_StringTypes(host_list[2][1])
    THEN host_list[2][1]
    ELSE host_list

\* hosts(*host_list) / roles(*role_list): returns the decorator.
factory(name, code, host_list) ==
    /\ dec' = Decorator(code, Tuple(host_list), EmptyDict)
    /\ last' = Call(name, Tuple(host_list), PyNone, ReturnedDecorator(code))
    /\ UNCHANGED <<funcs, lists>>

\* attach without the copy: inner_decorator.hosts = _hosts
attach_no_copy(code, attr, func) ==
    /\ dec.code = code
    /\ func \in Wrappable
    /\ Len(funcs) < MaxFuncs
    /\ Len(lists) < MaxLists
    /\ IF normalise(dec.arg)[1] = "list"
       THEN /\ lists' = lists
            /\ funcs' = Append(funcs, Wrapper("inner_decorator", func,
                           setattr(wraps(EmptyDict, func), attr, normalise(dec.arg))))
       ELSE /\ lists' = Append(lists, list(normalise(dec.arg)))
            /\ funcs' = Append(funcs, Wrapper("inner_decorator", func,
                           setattr(wraps(EmptyDict, func), attr, ListRef(Len(lists) + 1))))
    /\ last' = Call(code, dec.arg, Ref(func), Ref(Len(funcs) + 1))
    /\ UNCHANGED dec

\* attach_hosts(func) / attach_roles(func)
attach(code, attr, func) ==
    /\ dec.code = code
    /\ func \in Wrappable
    /\ Len(funcs) < MaxFuncs
    /\ Len(lists) < MaxLists
    /\ lists' = Append(lists, list(normalise(dec.arg)))
    /\ funcs' = Append(funcs, Wrapper("inner_decorator", func,
                   setattr(wraps(EmptyDict, func), attr, ListRef(Len(lists) + 1))))
    /\ last' = Call(code, dec.arg, Ref(func), Ref(Len(funcs) + 1))
    /\ UNCHANGED dec

hosts(host_list) == factory("hosts", "attach_hosts", host_list) /\ UNCHANGED <<onceVars, settingsVars>>
attach_hosts(func) == attach("attach_hosts", "hosts", func) /\ UNCHANGED <<onceVars, settingsVars>>
roles(role_list) == factory("roles", "attach_roles", role_list) /\ UNCHANGED <<onceVars, settingsVars>>
attach_roles(func) == attach("attach_roles", "roles", func) /\ UNCHANGED <<onceVars, settingsVars>>

(***************************************************************************)
(* runs_once, at decoration time.                                          *)
(***************************************************************************)
runs_once(func) ==
    /\ func \in Wrappable
    /\ Len(funcs) < MaxFuncs
    /\ funcs' = Append(funcs, Wrapper("decorated", func, wraps(EmptyDict, func)))
    /\ last' = Call("runs_once", PyNone, Ref(func), Ref(Len(funcs) + 1))
    /\ UNCHANGED <<lists, dec, onceVars, settingsVars>>

(***************************************************************************)
(* ensure_order.                                                           *)
(***************************************************************************)
\* lines 130-133, with `sorted` the value the enclosing call was given.
real_decorator_body(sorted, func) ==
    [funcs EXCEPT ![func].dict =
        setattr(setattr(@, "_sorted", sorted), "_ensure_order", PyTrue)]

\* line 137: type(sorted) == type(real_decorator)
is_function(sorted) == TypeOf(sorted) = "function"

ensure_order(sorted) ==
    /\ IF is_function(sorted)
       THEN /\ funcs' = real_decorator_body(sorted, sorted[2])
            /\ last' = Call("ensure_order", sorted, sorted, sorted)
            /\ UNCHANGED dec
       ELSE /\ dec' = Decorator("real_decorator", sorted, setattr(EmptyDict, "_ensure_order", PyTrue))
            /\ last' = Call("ensure_order", sorted, PyNone, ReturnedDecorator("real_decorator"))
            /\ UNCHANGED funcs
    /\ UNCHANGED <<lists, onceVars, settingsVars>>

\* The decorator ensure_order returned, applied to func.
real_decorator(func) ==
    /\ dec.code = "real_decorator"
    /\ func \in Tasks
    /\ funcs' = real_decorator_body(dec.arg, func)
    /\ last' = Call("real_decorator", dec.arg, Ref(func), Ref(func))
    /\ UNCHANGED <<lists, dec, onceVars, settingsVars>>

(***************************************************************************)
(* with_settings, at decoration time.                                      *)
(***************************************************************************)
with_settings(kw_settings) ==
    /\ dec' = Decorator("outer", kw_settings, EmptyDict)
    /\ last' = Call("with_settings", kw_settings, PyNone, ReturnedDecorator("outer"))
    /\ UNCHANGED <<funcs, lists, onceVars, settingsVars>>

outer(func) ==
    /\ dec.code = "outer"
    /\ func \in Tasks
    /\ Len(funcs) < MaxFuncs
    /\ funcs' = Append(funcs, Wrapper("inner", func, EmptyDict))
    /\ last' = Call("outer", dec.arg, Ref(func), Ref(Len(funcs) + 1))
    /\ UNCHANGED <<lists, dec, onceVars, settingsVars>>

(***************************************************************************)
(* The fabfile changes a list it holds: L.append(s).                       *)
(***************************************************************************)
append(l, s) ==
    /\ l \in UserLists
    /\ Len(lists[l]) < MaxLen
    /\ lists' = [lists EXCEPT ![l] = Append(@, s)]
    /\ last' = Call("append", s, ListRef(l), PyNone)
    /\ UNCHANGED <<funcs, dec, onceVars, settingsVars>>

(***************************************************************************)
(* runs_once, at call time: the wrapper `decorated` of one function, called *)
(* by the threads in DOMAIN pc. Each thread goes through lines 105-107:     *)
(* the hasattr test, the call of func, the assignment, the return.          *)
(***************************************************************************)
Threads == DOMAIN pc
Args == {Tuple(<<>>), Tuple(<<PyInt(1)>>)}
\* What the body may return on its n-th execution: falsy values, or the count.
BodyValues(n) == {PyNone, PyFalse, PyInt(0), Tuple(<<>>), PyInt(n)}
\* Python's truth value of the values above.
truthy(v) == ~(v \in {PyNone, PyFalse, PyInt(0), Tuple(<<>>), Str(<<>>)})

NoFrame == [args |-> Tuple(<<>>), miss |-> FALSE, value |-> PyNone]
Started == Len(log) + Cardinality({t \in Threads : pc[t] # "idle"})
Outcome(t, kind, value) ==
    [thread |-> t, args |-> frame[t].args, kind |-> kind, value |-> value, ran |-> frame[t].miss]

\* decorated(*args, **kwargs) is entered.
decorated_call(t, args) ==
    /\ pc[t] = "idle"
    /\ Started < MaxCalls
    /\ pc' = [pc EXCEPT ![t] = "l105"]
    /\ frame' = [frame EXCEPT ![t] = [NoFrame EXCEPT !.args = args]]
    /\ UNCHANGED <<decorated, counter, writes, log, decorVars, settingsVars>>

\* decorated without the test of line 105: the body runs on every call.
decorated_check_missing(t) ==
    /\ pc[t] = "l105"
    /\ pc' = [pc EXCEPT ![t] = "l106"]
    /\ frame' = [frame EXCEPT ![t].miss = TRUE]
    /\ UNCHANGED <<decorated, counter, writes, log, decorVars, settingsVars>>

\* line 105 testing the value: if not getattr(decorated, 'return_value', None)
decorated_check_truthy(t) ==
    /\ pc[t] = "l105"
    /\ IF ~(hasattr(decorated, "return_value") /\ truthy(decorated["return_value"]))
       THEN /\ pc' = [pc EXCEPT ![t] = "l106"]
            /\ frame' = [frame EXCEPT ![t].miss = TRUE]
       ELSE /\ pc' = [pc EXCEPT ![t] = "l107"]
            /\ UNCHANGED frame
    /\ UNCHANGED <<decorated, counter, writes, log, decorVars, settingsVars>>

\* line 105: if not hasattr(decorated, 'return_value')
decorated_check(t) ==
    /\ pc[t] = "l105"
    /\ IF ~hasattr(decorated, "return_value")
       THEN /\ pc' = [pc EXCEPT ![t] = "l106"]
            /\ frame' = [frame EXCEPT ![t].miss = TRUE]
       ELSE /\ pc' = [pc EXCEPT ![t] = "l107"]
            /\ UNCHANGED frame
    /\ UNCHANGED <<decorated, counter, writes, log, decorVars, settingsVars>>

\* line 106 with the failure cached: return_value is set to None when func raises.
func_body_caching_failure(t) ==
    /\ pc[t] = "l106"
    /\ counter' = counter + 1
    /\ \/ \E v \in BodyValues(counter + 1) :
            /\ frame' = [frame EXCEPT ![t].value = v]
            /\ pc' = [pc EXCEPT ![t] = "l106_store"]
            /\ UNCHANGED <<log, decorated>>
       \/ /\ log' = Append(log, Outcome(t, "raise", PyNone))
          /\ pc' = [pc EXCEPT ![t] = "idle"]
          /\ frame' = [frame EXCEPT ![t] = NoFrame]
          /\ decorated' = setattr(decorated, "return_value", PyNone)
    /\ UNCHANGED <<writes, decorVars, settingsVars>>

\* line 106, right-hand side: func(*args, **kwargs) runs and returns or raises.
func_body(t) ==
    /\ pc[t] = "l106"
    /\ counter' = counter + 1
    /\ \/ \E v \in BodyValues(counter + 1) :
            /\ frame' = [frame EXCEPT ![t].value = v]
            /\ pc' = [pc EXCEPT ![t] = "l106_store"]
            /\ UNCHANGED log
       \/ /\ log' = Append(log, Outcome(t, "raise", PyNone))
          /\ pc' = [pc EXCEPT ![t] = "idle"]
          /\ frame' = [frame EXCEPT ![t] = NoFrame]
    /\ UNCHANGED <<decorated, writes, decorVars, settingsVars>>

\* line 106 assigning only while return_value is still absent.
decorated_store_if_absent(t) ==
    /\ pc[t] = "l106_store"
    /\ IF hasattr(decorated, "return_value")
       THEN UNCHANGED <<decorated, writes>>
       ELSE /\ decorated' = setattr(decorated, "return_value", frame[t].value)
            /\ writes' = writes + 1
    /\ pc' = [pc EXCEPT ![t] = "l107"]
    /\ UNCHANGED <<frame, counter, log, decorVars, settingsVars>>

\* line 106, the assignment: decorated.return_value = <the value returned>
decorated_store(t) ==
    /\ pc[t] = "l106_store"
    /\ decorated' = setattr(decorated, "return_value", frame[t].value)
    /\ writes' = writes + 1
    /\ pc' = [pc EXCEPT ![t] = "l107"]
    /\ UNCHANGED <<frame, counter, log, decorVars, settingsVars>>

\* line 107: return decorated.return_value
decorated_return(t) ==
    /\ pc[t] = "l107"
    /\ log' = Append(log, Outcome(t, "return", decorated["return_value"]))
    /\ pc' = [pc EXCEPT ![t] = "idle"]
    /\ frame' = [frame EXCEPT ![t] = NoFrame]
    /\ UNCHANGED <<decorated, counter, writes, decorVars, settingsVars>>

(***************************************************************************)
(* with_settings, at call time. settings() is fabric.context_managers'     *)
(* context manager: entering applies the overrides and remembers the       *)
(* previous values, leaving puts them back and deletes the keys it added.  *)
(***************************************************************************)
settings_enter(e, kw) == kw @@ e
settings_saved(e, kw) == [k \in DOMAIN kw \cap DOMAIN e |-> e[k]]
settings_exit(e, kw, saved) ==
    [k \in DOMAIN e \ (DOMAIN kw \ DOMAIN saved) |->
        IF k \in DOMAIN saved THEN saved[k] ELSE e[k]]

\* The kw_settings of the wrapped functions of the model.
Overrides == {("warn_only" :> PyTrue),
              ("warn_only" :> PyFalse) @@ ("user" :> h1),
              ("user" :> h2)}
InitialEnvs == {EmptyDict, ("warn_only" :> PyFalse), ("warn_only" :> PyTrue) @@ ("user" :> h1)}

NotDone == [kw |-> EmptyDict, before |-> EmptyDict, after |-> EmptyDict, how |-> "none"]
Top == stack[Len(stack)]
Pop == SubSeq(stack, 1, Len(stack) - 1)

\* inner(*args, **kwargs), lines 164-165: the with statement is entered and
\* func is called. Called from outside, or from the body that is running.
inner_call(kw_settings) ==
    /\ ~exc
    /\ Len(stack) < MaxDepth
    /\ env' = settings_enter(env, kw_settings)
    /\ stack' = Append(stack, [kw |-> kw_settings,
                               saved |-> settings_saved(env, kw_settings),
                               before |-> env])
    /\ UNCHANGED <<exc, done, decorVars, onceVars>>

\* line 166: func returns, the with statement is left, inner returns.
inner_return ==
    /\ ~exc
    /\ stack # <<>>
    /\ env' = settings_exit(env, Top.kw, Top.saved)
    /\ stack' = Pop
    /\ done' = [kw |-> Top.kw, before |-> Top.before, after |-> env', how |-> "return"]
    /\ UNCHANGED <<exc, decorVars, onceVars>>

\* inner without the with statement: an exception leaves the overrides in place.
inner_raise_no_restore ==
    /\ stack # <<>>
    /\ env' = env
    /\ stack' = Pop
    /\ exc' = (Len(stack) > 1)
    /\ done' = [kw |-> Top.kw, before |-> Top.before, after |-> env', how |-> "raise"]
    /\ UNCHANGED <<decorVars, onceVars>>

\* line 166: func raises (or lets an exception of a nested call through), the
\* with statement is left by the exception, which goes on to inner's caller.
inner_raise ==
    /\ stack # <<>>
    /\ env' = settings_exit(env, Top.kw, Top.saved)
    /\ stack' = Pop
    /\ exc' = (Len(stack) > 1)
    /\ done' = [kw |-> Top.kw, before |-> Top.before, after |-> env', how |-> "raise"]
    /\ UNCHANGED <<decorVars, onceVars>>

\* The running body catches the exception of the call it made.
body_except ==
    /\ exc
    /\ stack # <<>>
    /\ exc' = FALSE
    /\ UNCHANGED <<env, stack, done, decorVars, onceVars>>

(***************************************************************************)
(* Specifications.                                                         *)
(***************************************************************************)
IdleDecor ==
    /\ funcs = <<PlainFunction>>
    /\ lists = <<>>
    /\ dec = NoDecorator
    /\ last = Call("none", PyNone, PyNone, PyNone)
IdleOnce ==
    /\ decorated = EmptyDict
    /\ pc = <<>>
    /\ frame = <<>>
    /\ counter = 0
    /\ writes = 0
    /\ log = <<>>
IdleSettings ==
    /\ env = EmptyDict
    /\ stack = <<>>
    /\ exc = FALSE
    /\ done = NotDone

\* Decoration time: a fabfile with a function, a callable object and a list.
Init ==
    /\ funcs = <<PlainFunction, CallableObject>>
    /\ lists = << <<h1>> >>
    /\ dec = NoDecorator
    /\ last = Call("none", PyNone, PyNone, PyNone)
    /\ IdleOnce
    /\ IdleSettings

HostArgs == {<<h2, h1>>, <<ListRef(1)>>}
Sorted == {PyFalse, PyTrue} \cup {Ref(f) : f \in DOMAIN funcs}

Next ==
    \/ \E host_list \in HostArgs : hosts(host_list)
    \/ \E func \in Tasks : attach_hosts(func)
    \/ \E role_list \in HostArgs : roles(role_list)
    \/ \E func \in Tasks : attach_roles(func)
    \/ \E func \in Tasks : runs_once(func)
    \/ \E sorted \in Sorted : ensure_order(sorted)
    \/ \E func \in Tasks : real_decorator(func)
    \/ with_settings(Tuple(<<>>))
    \/ \E func \in Tasks : outer(func)

Spec == Init /\ [][Next]_vars

\* hosts and roles stacked on one function, whose fabfile goes on to change
\* the list it passed.
InitAttach ==
    /\ funcs = <<PlainFunction>>
    /\ lists = << <<h1>> >>
    /\ dec = NoDecorator
    /\ last = Call("none", PyNone, PyNone, PyNone)
    /\ IdleOnce
    /\ IdleSettings

NextAttach ==
    \/ \E host_list \in HostArgs : hosts(host_list)
    \/ \E func \in Tasks : attach_hosts(func)
    \/ \E role_list \in HostArgs : roles(role_list)
    \/ \E func \in Tasks : attach_roles(func)
    \/ \E s \in HostStrings : append(1, s)

SpecAttach == InitAttach /\ [][NextAttach]_vars

\* hosts and roles applied once to a plain function, over every argument list
\* of at most MaxLen strings, given as an iterable or as separate arguments.
BoundedSeq(S, n) == UNION {[1..m -> S] : m \in 0..n}
StringLists == BoundedSeq(HostStrings, MaxLen)
AllHostArgs == StringLists \cup {<<ListRef(1)>>}

InitNorm ==
    /\ funcs = <<PlainFunction>>
    /\ lists \in {<<L>> : L \in StringLists}
    /\ dec = NoDecorator
    /\ last = Call("none", PyNone, PyNone, PyNone)
    /\ IdleOnce
    /\ IdleSettings

NextNorm ==
    \/ \E host_list \in AllHostArgs : hosts(host_list)
    \/ Len(funcs) = 1 /\ attach_hosts(1)
    \/ \E role_list \in AllHostArgs : roles(role_list)
    \/ Len(funcs) = 1 /\ attach_roles(1)

SpecNorm == InitNorm /\ [][NextNorm]_vars

\* Call time of a runs_once wrapper made at module load from a task function
\* that may carry metadata: n threads call it.
TaskDicts == {EmptyDict, setattr(EmptyDict, "hosts", ListRef(1))}
InitCalls(n) ==
    /\ funcs \in {<<[PlainFunction EXCEPT !.dict = d]>> : d \in TaskDicts}
    /\ lists = << <<h1>> >>
    /\ dec = NoDecorator
    /\ last = Call("none", PyNone, PyNone, PyNone)
    /\ decorated = wraps(EmptyDict, 1)
    /\ pc = [t \in 1..n |-> "idle"]
    /\ frame = [t \in 1..n |-> NoFrame]
    /\ counter = 0
    /\ writes = 0
    /\ log = <<>>
    /\ IdleSettings

NextOnce ==
    \/ \E t \in Threads, args \in Args : decorated_call(t, args)
    \/ \E t \in Threads : decorated_check(t)
    \/ \E t \in Threads : func_body(t)
    \/ \E t \in Threads : decorated_store(t)
    \/ \E t \in Threads : decorated_return(t)

\* Sequential calls.
InitOnce == InitCalls(1)
SpecOnce == InitOnce /\ [][NextOnce]_vars

\* Two threads.
InitThreads == InitCalls(2)
SpecThreads == InitThreads /\ [][NextOnce]_vars

\* Call time of with_settings wrappers.
InitSettings ==
    /\ IdleDecor
    /\ IdleOnce
    /\ env \in InitialEnvs
    /\ stack = <<>>
    /\ exc = FALSE
    /\ done = NotDone

NextSettings ==
    \/ \E kw_settings \in Overrides : inner_call(kw_settings)
    \/ inner_return
    \/ inner_raise
    \/ body_except

SpecSettings == InitSettings /\ [][NextSettings]_vars

(***************************************************************************)
(* The claims.                                                             *)
(***************************************************************************)
Attr(op) == IF op = "attach_hosts" THEN "hosts" ELSE "roles"
Attached(f, attr) == lists[funcs[f].dict[attr][2]]

\* C4: hosts and roles attach list(L) both for the single iterable L
\* (hosts(L)) and for the strings of L given one by one (hosts(*L)): order
\* and duplicates kept, a single string one entry, no argument the empty
\* sequence.
C4_SameNormalisation ==
    last.op \in {"attach_hosts", "attach_roles"} =>
        LET given == last.arg[2]
            attached == Attached(last.res[2], Attr(last.op))
        IN  /\ given = <<ListRef(1)>> => attached = lists[1]
            /\ given = lists[1] => attached = lists[1]
            /\ given \in StringLists => attached = given
            /\ (Len(given) = 1 /\ given[1] \in HostStrings) => attached = <<given[1]>>
            /\ given = <<>> => attached = <<>>

\* C4's case: a list with a duplicate was passed as the single iterable.
C4_Witness ==
    /\ last.op = "attach_roles"
    /\ last.arg[2] = <<ListRef(1)>>
    /\ Len(lists[1]) = 2
    /\ lists[1][1] = lists[1][2]
    /\ Attached(last.res[2], "roles") = lists[1]

\* C5: once ensure_order has been applied to f, f._ensure_order is True and
\* f._sorted is the boolean asked for: False for the bare @ensure_order,
\* and b for ensure_order(sorted=b).
C5_EnsureOrderFlags ==
    /\ (last.op = "ensure_order" /\ last.res[1] = "ref") =>
            LET d == funcs[last.res[2]].dict
            IN  /\ hasattr(d, "_ensure_order") /\ d["_ensure_order"] = PyTrue
                /\ hasattr(d, "_sorted") /\ d["_sorted"] = PyFalse
    /\ (last.op = "real_decorator" /\ last.arg[1] = "bool") =>
            LET d == funcs[last.res[2]].dict
            IN  /\ hasattr(d, "_ensure_order") /\ d["_ensure_order"] = PyTrue
                /\ hasattr(d, "_sorted") /\ d["_sorted"] = last.arg

\* C6: ensure_order(x) decorates x at once and returns it for every callable
\* x (a function, a wrapped function, a callable object), and returns a
\* decorator for every other x; that decorator sets the flags on the
\* function it is given and returns that function.
C6_DispatchOnCallable ==
    /\ last.op = "ensure_order" =>
            IF last.arg[1] = "ref"
            THEN /\ last.res = last.arg
                 /\ hasattr(funcs[last.arg[2]].dict, "_ensure_order")
            ELSE last.res = ReturnedDecorator("real_decorator")
    /\ last.op = "real_decorator" =>
            /\ last.res = last.target
            /\ hasattr(funcs[last.res[2]].dict, "_ensure_order")
            /\ hasattr(funcs[last.res[2]].dict, "_sorted")

\* C9: attaching hosts (roles) makes a new function with a new list object
\* holding the new sequence; no function and no list that existed is
\* changed, and a later change of the list the fabfile passed changes no
\* attached sequence.
C9_AttachReplacesNeverMutates ==
    [][/\ (last'.op \in {"attach_hosts", "attach_roles"} /\ funcs' # funcs) =>
            LET r == last'.res[2]
                attr == Attr(last'.op)
                given == last'.arg[2]
            IN  /\ r \notin DOMAIN funcs
                /\ \A f \in DOMAIN funcs : funcs'[f] = funcs[f]
                /\ \A l \in DOMAIN lists : lists'[l] = lists[l]
                /\ funcs'[r].dict[attr][1] = "list"
                /\ funcs'[r].dict[attr][2] \notin DOMAIN lists
                /\ lists'[funcs'[r].dict[attr][2]] =
                        IF given = <<ListRef(1)>> THEN lists[1] ELSE given
       /\ (last'.op = "append" /\ lists' # lists) =>
            \A f \in DOMAIN funcs : \A attr \in {"hosts", "roles"} :
                hasattr(funcs[f].dict, attr) =>
                    /\ funcs'[f] = funcs[f]
                    /\ lists'[funcs[f].dict[attr][2]] = lists[funcs[f].dict[attr][2]]
      ]_vars

\* C9's case: hosts was attached from the fabfile's list on top of a function
\* that carried hosts already, and the list was appended to afterwards.
C9_Witness ==
    /\ last.op = "append"
    /\ \E g \in DOMAIN funcs :
        /\ funcs[g].code = "inner_decorator"
        /\ hasattr(funcs[g].dict, "hosts")
        /\ hasattr(funcs[funcs[g].closure[2]].dict, "hosts")
        /\ funcs[funcs[g].closure[2]].dict["hosts"] # funcs[g].dict["hosts"]
        /\ Attached(funcs[g].closure[2], "hosts") = <<h2, h1>>
        /\ Attached(g, "hosts") = <<h1>>
        /\ lists[1] = <<h1, h2>>

\* The metadata attributes, and those a decorator sets itself.
Metadata == {"hosts", "roles", "_ensure_order", "_sorted"}
SetBy(op) ==
    CASE op = "attach_hosts" -> {"hosts"}
      [] op = "attach_roles" -> {"roles"}
      [] op \in {"ensure_order", "real_decorator"} -> {"_ensure_order", "_sorted"}
      [] OTHER -> {}

\* C10: a decorator of this module (hosts, roles, runs_once, ensure_order,
\* with_settings) applied on top of a function keeps every piece of metadata
\* that function carried, other than what the decorator itself sets.
C10_MetadataSurvivesStacking ==
    (/\ last.op \in {"attach_hosts", "attach_roles", "runs_once", "ensure_order",
                     "real_decorator", "outer"}
     /\ last.target[1] = "ref"
     /\ last.res[1] = "ref") =>
        \A a \in Metadata \ SetBy(last.op) :
            hasattr(funcs[last.target[2]].dict, a) =>
                /\ hasattr(funcs[last.res[2]].dict, a)
                /\ funcs[last.res[2]].dict[a] = funcs[last.target[2]].dict[a]

(***************************************************************************)
(* The claims about runs_once at call time.                                *)
(***************************************************************************)
Ran == {i \in DOMAIN log : log[i].ran}
Returned == {i \in DOMAIN log : log[i].kind = "return"}
Cached(v) == hasattr(decorated, "return_value") /\ decorated["return_value"] = v

\* C1: called one call after the other with a body that does not raise, the
\* body runs once, on the first call; every call returns what the first call
\* returned, and return_value is written once.
C1_FirstCallWins ==
    Returned = DOMAIN log =>
        /\ counter <= 1
        /\ writes <= 1
        /\ \A i \in DOMAIN log : log[i].value = log[1].value /\ (log[i].ran <=> i = 1)
        /\ log # <<>> => counter = 1 /\ writes = 1 /\ Cached(log[1].value)
        /\ \A t \in Threads : pc[t] = "l107" /\ frame[t].miss => Cached(frame[t].value)
        /\ \A t \in Threads : pc[t] \in {"l106", "l106_store"} => log = <<>>

\* C1's case: three calls, the second with other arguments than the first.
C1_Witness ==
    /\ Len(log) = 3
    /\ Returned = DOMAIN log
    /\ log[1].args # log[2].args
    /\ log[1].value = PyInt(1)
    /\ counter = 1

\* The first call that returned (one past the log when none has).
FirstReturn == IF Returned = {} THEN Len(log) + 1
               ELSE CHOOSE k \in Returned : \A i \in Returned : k <= i

\* C2: a call whose body raises while the cache is unset raises to its
\* caller and leaves the cache unset, so that the next call runs the body
\* again, however many calls fail in a row; the first call that returns is
\* the one whose result is cached.
C2_FailureNotCached ==
    /\ \A i \in DOMAIN log : i <= FirstReturn => log[i].ran
    /\ \A i \in DOMAIN log : i > FirstReturn =>
            log[i].kind = "return" /\ ~log[i].ran /\ log[i].value = log[FirstReturn].value
    /\ FirstReturn <= Len(log) => Cached(log[FirstReturn].value)
    /\ (Returned = {} /\ \A t \in Threads : pc[t] \in {"idle", "l105", "l106"}) =>
            ~hasattr(decorated, "return_value")
    /\ counter = Cardinality(Ran)
                 + Cardinality({t \in Threads : pc[t] \in {"l106_store", "l107"} /\ frame[t].miss})

\* C2's case: two calls failed in a row and the third returned.
C2_Witness ==
    /\ Len(log) = 3
    /\ log[1].kind = "raise"
    /\ log[2].kind = "raise"
    /\ log[3].kind = "return"
    /\ Cached(log[3].value)
    /\ counter = 3

\* C8: a first call that returns a falsy value (None, False, 0, an empty
\* sequence) caches it: the body runs on no later call and every later call
\* returns that value.
C8_FalsyResultCached ==
    (log # <<>> /\ log[1].kind = "return" /\ ~truthy(log[1].value)) =>
        /\ Cached(log[1].value)
        /\ counter = 1
        /\ \A i \in DOMAIN log : log[i].kind = "return" /\ log[i].value = log[1].value
        /\ \A i \in DOMAIN log : i > 1 => ~log[i].ran
        /\ \A t \in Threads : pc[t] \notin {"l106", "l106_store"}

\* C8's case: the first call returned an empty sequence and two calls followed.
C8_Witness ==
    /\ Len(log) = 3
    /\ log[1].kind = "return"
    /\ log[1].value = Tuple(<<>>)
    /\ log[3].value = Tuple(<<>>)
    /\ counter = 1

\* C7: under threads nothing ties the hasattr test to the assignment: every
\* call that found return_value absent runs the body, and every body that
\* returned is followed by an assignment to return_value, whatever the other
\* thread has stored meanwhile.
C7_CheckAndWriteSeparate ==
    /\ \A t \in Threads : pc[t] \in {"l106", "l106_store"} => frame[t].miss
    /\ counter = Cardinality(Ran)
                 + Cardinality({t \in Threads : pc[t] \in {"l106_store", "l107"} /\ frame[t].miss})
    /\ writes = Cardinality(Ran \cap Returned)
                + Cardinality({t \in Threads : pc[t] = "l107" /\ frame[t].miss})

\* C7's case: two threads both ran the body, return_value was written twice
\* and the two callers got different values.
C7_Witness ==
    /\ counter = 2
    /\ writes = 2
    /\ \E i, j \in DOMAIN log :
        /\ log[i].thread # log[j].thread
        /\ log[i].ran /\ log[j].ran
        /\ log[i].kind = "return" /\ log[j].kind = "return"
        /\ log[i].value # log[j].value

(***************************************************************************)
(* The claim about with_settings at call time.                             *)
(***************************************************************************)
\* C3: while the body of a with_settings wrapper runs, every overridden key
\* has its override value (also in the configuration a nested wrapper was
\* called in), and when a call has ended, by return or by an exception, the
\* configuration is the one the call found.
C3_SettingsScoped ==
    /\ stack # <<>> => \A k \in DOMAIN Top.kw : hasattr(env, k) /\ env[k] = Top.kw[k]
    /\ \A i \in 1..(Len(stack) - 1) : \A k \in DOMAIN stack[i].kw :
            /\ hasattr(stack[i + 1].before, k)
            /\ stack[i + 1].before[k] = stack[i].kw[k]
    /\ done.how # "none" => done.after = done.before
    /\ stack = <<>> => env \in InitialEnvs

\* C3's case: a nested wrapper that overrode a key of its caller ended by an
\* exception, which is now in the caller's body.
C3_Witness ==
    /\ exc
    /\ stack # <<>>
    /\ done.how = "raise"
    /\ Top.kw = ("warn_only" :> PyTrue)
    /\ done.kw = ("warn_only" :> PyFalse) @@ ("user" :> h1)
    /\ ~hasattr(done.before, "user")
    /\ done.after = env

====
